---- MODULE Spec2Model ----
(***************************************************************************)
(* Weighted blending of gridded forecast data (improver/weighted_blend.py). *)
(*                                                                         *)
(* The module models                                                       *)
(*   - PercentileBlendingAggregator.blend_percentiles (the kernel),        *)
(*   - PercentileBlendingAggregator.aggregate (the axis-aware wrapper),    *)
(*   - WeightedBlendAcrossWholeDimension.process,                          *)
(*   - TriangularWeightedBlendAcrossAdjacentPoints.process.                *)
(*                                                                         *)
(* Floating point numbers are modelled as exact rationals <<n, d>> in      *)
(* lowest terms with d > 0, so equalities are those of real arithmetic.    *)
(* numpy arrays are records [shape, val] with val a function on 0-based    *)
(* index tuples.                                                           *)
(***************************************************************************)
EXTENDS Integers, Sequences, FiniteSets, TLC

VARIABLES
    pc,        \* position of the caller: which call is pending or finished
    kin,       \* arguments of a blend_percentiles call
    kout,      \* what blend_percentiles returned
    kprev,     \* what the previous call on the same slices returned
    ain,       \* arguments of an aggregate call
    aout,      \* what aggregate returned (or that it raised)
    field,     \* the field (cube) of the caller, as it is now
    orig,      \* that field as it was when the call was made
    pin,       \* the plugin and the weights of a process call
    pout,      \* the outcome of that call
    tin,       \* the plugin of a triangular process call
    tri        \* the progress and the outcome of that call

kvars == <<kin, kout, kprev>>
avars == <<ain, aout>>
pvars == <<pin, pout>>
tvars == <<tin, tri>>
vars == <<pc, kvars, avars, field, orig, pvars, tvars>>

(***************************************************************************)
(* Bounds of the model.                                                    *)
(***************************************************************************)
MaxLevels == 3      \* percentile levels per slice in kernel calls
MaxVal == 3         \* data values are drawn from 0..MaxVal
MaxRank == 3        \* rank of the arrays passed to aggregate
MaxDim == 2         \* length of each axis of those arrays
MaxPoints == 3      \* points of the blend coordinate of a field
MaxWidth == 2       \* width of the triangular weighting function
SliceCounts == {1, 2}   \* points along the blend dimension in kernel calls

(***************************************************************************)
(* Exact rational arithmetic standing in for float arithmetic.             *)
(***************************************************************************)
Abs(x) == IF x < 0 THEN -x ELSE x

RECURSIVE GCD(_, _)
GCD(a, b) == IF b = 0 THEN a ELSE GCD(b, a % b)

Rat(n, d) ==
    LET g == GCD(Abs(n), Abs(d))
        s == IF d < 0 THEN -1 ELSE 1
    IN  <<(s * n) \div g, (s * d) \div g>>

RInt(i) == <<i, 1>>
RAdd(a, b) == Rat(a[1] * b[2] + b[1] * a[2], a[2] * b[2])
RSub(a, b) == Rat(a[1] * b[2] - b[1] * a[2], a[2] * b[2])
RMul(a, b) == Rat(a[1] * b[1], a[2] * b[2])
RDiv(a, b) == Rat(a[1] * b[2], a[2] * b[1])
RLt(a, b) == a[1] * b[2] < b[1] * a[2]
RLe(a, b) == a[1] * b[2] <= b[1] * a[2]
RAbs(a) == <<Abs(a[1]), a[2]>>

RECURSIVE RSum(_)
RSum(s) == IF s = <<>> THEN RInt(0) ELSE RAdd(Head(s), RSum(Tail(s)))

RECURSIVE RSeq(_)
RSeq(s) == IF s = <<>> THEN <<>> ELSE <<RInt(Head(s))>> \o RSeq(Tail(s))

(***************************************************************************)
(* np.sort of a flat array: ascending.                                     *)
(***************************************************************************)
RECURSIVE Insert(_, _)
Insert(x, s) ==
    IF s = <<>> THEN <<x>>
    ELSE IF RLe(x, Head(s)) THEN <<x>> \o s
    ELSE <<Head(s)>> \o Insert(x, Tail(s))

\* the array is left in the order it has
Unsorted(s) == s

RECURSIVE Sort(_)
Sort(s) == IF s = <<>> THEN <<>> ELSE Insert(Head(s), Sort(Tail(s)))

(* ndarray.flatten() of a 2-d array given as a sequence of rows. *)
RECURSIVE Flatten(_)
Flatten(rows) == IF rows = <<>> THEN <<>> ELSE Head(rows) \o Flatten(Tail(rows))

(***************************************************************************)
(* np.interp(x, xp, fp) for one x: clamps outside [xp[1], xp[n]], else     *)
(* finds the last j with xp[j] <= x by a forward scan and interpolates     *)
(* linearly on [xp[j], xp[j+1]].                                           *)
(***************************************************************************)
RECURSIVE Scan(_, _, _)
Scan(x, xp, i) ==
    IF i <= Len(xp) /\ RLe(xp[i], x) THEN Scan(x, xp, i + 1) ELSE i - 1

Interp1(x, xp, fp) ==
    LET n == Len(xp) IN
    IF RLt(xp[n], x) THEN fp[n]
    ELSE IF RLt(x, xp[1]) THEN fp[1]
    ELSE LET j == Scan(x, xp, 2) IN
         IF j = n THEN fp[n]
         ELSE IF xp[j] = x THEN fp[j]
         ELSE RAdd(RMul(RDiv(RSub(fp[j + 1], fp[j]), RSub(xp[j + 1], xp[j])),
                        RSub(x, xp[j])),
                   fp[j])

RECURSIVE InterpFrom(_, _, _, _)
InterpFrom(xs, xp, fp, k) ==
    IF k > Len(xs) THEN <<>>
    ELSE <<Interp1(xs[k], xp, fp)>> \o InterpFrom(xs, xp, fp, k + 1)

Interp(xs, xp, fp) == InterpFrom(xs, xp, fp, 1)

(***************************************************************************)
(* PercentileBlendingAggregator.blend_percentiles.                         *)
(* perc_values: sequence of slices, each a sequence of rationals;          *)
(* percentiles, weights: sequences of rationals.                           *)
(***************************************************************************)
RecalcValuesInPdf(perc_values, percentiles, i, j) ==
    IF i = j THEN percentiles
    ELSE Interp(perc_values[i], perc_values[j], percentiles)

\* acc + rec * w, element by element (combined_pdf[i] += recalc * weights[j])
RECURSIVE AddScaled(_, _, _)
AddScaled(acc, rec, w) ==
    IF acc = <<>> THEN <<>>
    ELSE <<RAdd(Head(acc), RMul(Head(rec), w))>> \o AddScaled(Tail(acc), Tail(rec), w)

RECURSIVE Zeros(_)
Zeros(n) == IF n = 0 THEN <<>> ELSE <<RInt(0)>> \o Zeros(n - 1)

\* the accumulation with the weight of slice i where the code takes that of j
RECURSIVE CombinedPdfRowOwnWeight(_, _, _, _, _)
CombinedPdfRowOwnWeight(perc_values, percentiles, weights, i, j) ==
    IF j = 0 THEN Zeros(Len(percentiles))
    ELSE AddScaled(CombinedPdfRowOwnWeight(perc_values, percentiles, weights, i, j - 1),
                   RecalcValuesInPdf(perc_values, percentiles, i, j),
                   weights[i])

RECURSIVE CombinedPdfRow(_, _, _, _, _)
CombinedPdfRow(perc_values, percentiles, weights, i, j) ==
    IF j = 0 THEN Zeros(Len(percentiles))
    ELSE AddScaled(CombinedPdfRow(perc_values, percentiles, weights, i, j - 1),
                   RecalcValuesInPdf(perc_values, percentiles, i, j),
                   weights[j])

RECURSIVE CombinedPdfFrom(_, _, _, _)
CombinedPdfFrom(perc_values, percentiles, weights, i) ==
    IF i > Len(perc_values) THEN <<>>
    ELSE <<CombinedPdfRow(perc_values, percentiles, weights, i, Len(perc_values))>>
         \o CombinedPdfFrom(perc_values, percentiles, weights, i + 1)

CombinedPdf(perc_values, percentiles, weights) ==
    CombinedPdfFrom(perc_values, percentiles, weights, 1)

blend_percentiles(perc_values, percentiles, weights) ==
    LET combined_pdf == CombinedPdf(perc_values, percentiles, weights)
        combined_perc_thres_data == Sort(Flatten(perc_values))
        combined_perc_values == Sort(Flatten(combined_pdf))
    IN  Interp(percentiles, combined_perc_values, combined_perc_thres_data)


(***************************************************************************)
(* numpy arrays: [shape |-> <<d0, ..>>, val |-> [index tuple -> value]],   *)
(* index tuples 0-based, shape and tuples stored as TLA+ sequences.        *)
(***************************************************************************)
Rank(arr) == Len(arr.shape)

RECURSIVE Prod(_)
Prod(shape) == IF shape = <<>> THEN 1 ELSE Head(shape) * Prod(Tail(shape))

RECURSIVE MaxOf(_)
MaxOf(shape) ==
    IF shape = <<>> THEN 0
    ELSE LET m == MaxOf(Tail(shape)) IN IF Head(shape) > m THEN Head(shape) ELSE m

Indices(shape) ==
    {idx \in [1..Len(shape) -> 0..(MaxOf(shape) - 1)] :
        \A k \in 1..Len(shape) : idx[k] < shape[k]}

\* position of an index tuple in C (row-major) order
RECURSIVE Ravel(_, _)
Ravel(idx, shape) ==
    IF idx = <<>> THEN 0
    ELSE Head(idx) * Prod(Tail(shape)) + Ravel(Tail(idx), Tail(shape))

\* the index tuple at position n in C order
RECURSIVE Unravel(_, _)
Unravel(n, shape) ==
    IF shape = <<>> THEN <<>>
    ELSE <<n \div Prod(Tail(shape))>> \o Unravel(n % Prod(Tail(shape)), Tail(shape))

(* ndarray.reshape(newshape), the sizes being equal *)
Reshape(arr, newshape) ==
    [shape |-> newshape,
     val |-> [idx \in Indices(newshape) |->
                 arr.val[Unravel(Ravel(idx, newshape), arr.shape)]]]

InSeq(x, s) == \E k \in 1..Len(s) : s[k] = x
NoRepeats(s) == \A k, l \in 1..Len(s) : k # l => s[k] # s[l]
InsertAt(s, pos, x) == SubSeq(s, 1, pos) \o <<x>> \o SubSeq(s, pos + 1, Len(s))
RemoveAt(s, pos) == SubSeq(s, 1, pos) \o SubSeq(s, pos + 2, Len(s))

NormAxis(a, nd) == IF a < 0 THEN a + nd ELSE a
ValidAxis(a, nd) == -nd <= a /\ a < nd

RECURSIVE RangeSeq(_, _)
RangeSeq(lo, hi) == IF lo >= hi THEN <<>> ELSE <<lo>> \o RangeSeq(lo + 1, hi)

RECURSIVE Without(_, _)
Without(s, drop) ==
    IF s = <<>> THEN <<>>
    ELSE IF InSeq(Head(s), drop) THEN Without(Tail(s), drop)
    ELSE <<Head(s)>> \o Without(Tail(s), drop)

\* for dest, src in sorted(zip(destination, source)): order.insert(dest, src)
RECURSIVE InsertSorted(_, _, _, _)
InsertSorted(order, source, destination, from) ==
    IF \A k \in 1..Len(destination) : destination[k] < from THEN order
    ELSE LET d == CHOOSE d \in from..(from + Len(order) + Len(source)) :
                     /\ InSeq(d, destination)
                     /\ \A k \in 1..Len(destination) :
                            destination[k] >= from => destination[k] >= d
             k == CHOOSE k \in 1..Len(destination) : destination[k] = d
         IN  InsertSorted(InsertAt(order, d, source[k]), source, destination, d + 1)

\* ndarray.transpose(order): axis k of the result is axis order[k] of arr
Transpose(arr, order) ==
    [shape |-> [k \in 1..Len(order) |-> arr.shape[order[k] + 1]],
     val |-> [idx \in Indices([k \in 1..Len(order) |-> arr.shape[order[k] + 1]]) |->
                 arr.val[[a \in 1..Len(order) |->
                            idx[CHOOSE k \in 1..Len(order) : order[k] = a - 1]]]]]

MoveAxisOk(arr, source, destination) ==
    /\ \A k \in 1..Len(source) : ValidAxis(source[k], Rank(arr))
    /\ \A k \in 1..Len(destination) : ValidAxis(destination[k], Rank(arr))
    /\ NoRepeats([k \in 1..Len(source) |-> NormAxis(source[k], Rank(arr))])
    /\ NoRepeats([k \in 1..Len(destination) |-> NormAxis(destination[k], Rank(arr))])

(* np.moveaxis(arr, source, destination), MoveAxisOk holding *)
MoveAxis(arr, source, destination) ==
    LET nd == Rank(arr)
        src == [k \in 1..Len(source) |-> NormAxis(source[k], nd)]
        dst == [k \in 1..Len(destination) |-> NormAxis(destination[k], nd)]
        order == InsertSorted(Without(RangeSeq(0, nd), src), src, dst, 0)
    IN  Transpose(arr, order)

(***************************************************************************)
(* PercentileBlendingAggregator.aggregate                                  *)
(***************************************************************************)
Raised == [status |-> "raised", shape |-> <<>>, val |-> <<>>]
Returned(arr) == [status |-> "returned", shape |-> arr.shape, val |-> arr.val]

\* data[:, :, i] of the flattened array: one row of levels per slice
RECURSIVE LevelsFrom(_, _, _, _)
LevelsFrom(flat, slice, i, level) ==
    IF level >= flat.shape[2] THEN <<>>
    ELSE <<RInt(flat.val[<<slice, level, i>>])>> \o LevelsFrom(flat, slice, i, level + 1)

RECURSIVE SlicesFrom(_, _, _)
SlicesFrom(flat, i, slice) ==
    IF slice >= flat.shape[1] THEN <<>>
    ELSE <<LevelsFrom(flat, slice, i, 0)>> \o SlicesFrom(flat, i, slice + 1)

\* every point is given the blend of the slices at the first point
RECURSIVE BlendColumnsFirstPoint(_, _, _, _)
BlendColumnsFirstPoint(flat, arr_percent, arr_weights, i) ==
    IF i >= flat.shape[3] THEN <<>>
    ELSE <<blend_percentiles(SlicesFrom(flat, 0, 0), arr_percent, arr_weights)>>
         \o BlendColumnsFirstPoint(flat, arr_percent, arr_weights, i + 1)

\* the loop over the flattened points: result[:, i] = blend_percentiles(...)
RECURSIVE BlendColumns(_, _, _, _)
BlendColumns(flat, arr_percent, arr_weights, i) ==
    IF i >= flat.shape[3] THEN <<>>
    ELSE <<blend_percentiles(SlicesFrom(flat, i, 0), arr_percent, arr_weights)>>
         \o BlendColumns(flat, arr_percent, arr_weights, i + 1)

\* the percentile axis moved back always to perc_dim
PercDestinationNoShift(axis, perc_dim) == perc_dim

\* where the leading percentile axis of the result is moved to
PercDestination(axis, perc_dim) ==
    IF axis < perc_dim THEN perc_dim - 1 ELSE perc_dim

aggregate(data, axis, arr_percent, arr_weights, perc_dim) ==
    LET ax == IF axis < 0 THEN axis + Rank(data) ELSE axis IN
    IF ~MoveAxisOk(data, <<perc_dim, ax>>, <<1, 0>>) THEN Raised
    ELSE
    LET moved == MoveAxis(data, <<perc_dim, ax>>, <<1, 0>>)
        shape == SubSeq(moved.shape, 3, Rank(moved))
        input_shape == <<moved.shape[1], moved.shape[2], Prod(shape)>>
        flat == Reshape(moved, input_shape)
        columns == BlendColumns(flat, arr_percent, arr_weights, 0)
        result == [shape |-> <<input_shape[2], input_shape[3]>>,
                   val |-> [idx \in Indices(<<input_shape[2], input_shape[3]>>) |->
                               columns[idx[2] + 1][idx[1] + 1]]]
        reshaped == Reshape(result, <<Len(arr_percent)>> \o shape)
        dest == PercDestination(ax, perc_dim)
    IN  IF Len(arr_percent) # input_shape[2] THEN Raised
        ELSE IF ~MoveAxisOk(reshaped, <<0>>, <<dest>>) THEN Raised
        ELSE Returned(MoveAxis(reshaped, <<0>>, <<dest>>))

(***************************************************************************)
(* Fields (iris cubes).  A field is a record [kind, data, coords]; data is *)
(* an array and coords a sequence of coordinates [name, dims, points,      *)
(* bounds].  A name is the sequence of its characters, dims is <<>> for a  *)
(* scalar coordinate and <<d>> for a coordinate along dimension d, points  *)
(* is a sequence of rationals and bounds a sequence of pairs <<lo, hi>>,   *)
(* one per point, or NoBounds.  Coordinate names are unique in a field.    *)
(***************************************************************************)
NameTime == <<"t", "i", "m", "e">>
NamePercentile == <<"p", "e", "r", "c", "e", "n", "t", "i", "l", "e">>
NamePercentileOverTime == NamePercentile \o <<"_", "o", "v", "e", "r", "_">> \o NameTime
NameForecastPeriod ==
    <<"f", "o", "r", "e", "c", "a", "s", "t", "_", "p", "e", "r", "i", "o", "d">>
NameHeight == <<"h", "e", "i", "g", "h", "t">>
NameX == <<"x">>

\* str.find(sub): the lowest index at which sub occurs in s, or -1
RECURSIVE FindFrom(_, _, _)
FindFrom(s, sub, k) ==
    IF k + Len(sub) > Len(s) THEN -1
    ELSE IF SubSeq(s, k + 1, k + Len(sub)) = sub THEN k
    ELSE FindFrom(s, sub, k + 1)
Find(s, sub) == FindFrom(s, sub, 0)

NoBounds == <<>>
HasBounds(c) == c.bounds # NoBounds

\* cube.coords(name): the positions of the coordinates of that name
CoordsNamed(cube, name) == {k \in 1..Len(cube.coords) : cube.coords[k].name = name}
\* cube.coord(name) and cube.coord_dims(name) raise unless exactly one matches
CoordFound(cube, name) == Cardinality(CoordsNamed(cube, name)) = 1
CoordOf(cube, name) == cube.coords[CHOOSE k \in CoordsNamed(cube, name) : TRUE]
coord_dims(cube, name) == CoordOf(cube, name).dims

RECURSIVE RMin(_)
RMin(s) ==
    IF Len(s) = 1 THEN s[1]
    ELSE LET m == RMin(Tail(s)) IN IF RLt(Head(s), m) THEN Head(s) ELSE m
RECURSIVE RMax(_)
RMax(s) ==
    IF Len(s) = 1 THEN s[1]
    ELSE LET m == RMax(Tail(s)) IN IF RLt(m, Head(s)) THEN Head(s) ELSE m

(* Coord.is_contiguous: bounded, and each cell ends where the next begins *)
Contiguous(c) ==
    /\ HasBounds(c)
    /\ \A k \in 1..(Len(c.bounds) - 1) : c.bounds[k][2] = c.bounds[k + 1][1]

(* Coord.collapsed: one cell from the least to the greatest bound (or      *)
(* point, without bounds), its point the middle of the cell                *)
CollapsedCoord(c) ==
    LET item == IF HasBounds(c) THEN Flatten(c.bounds) ELSE c.points
        lower == RMin(item)
        upper == RMax(item)
    IN  [name |-> c.name, dims |-> <<>>,
         points |-> <<RMul(RAdd(lower, upper), Rat(1, 2))>>,
         bounds |-> <<<<lower, upper>>>>]

\* the coordinates of cube.collapsed(coord, ..) for a coordinate along d
CollapsedCoords(cube, d) ==
    [k \in 1..Len(cube.coords) |->
        LET c == cube.coords[k] IN
        IF InSeq(d, c.dims) THEN CollapsedCoord(c)
        ELSE [c EXCEPT !.dims = [n \in 1..Len(c.dims) |->
                                    IF c.dims[n] > d THEN c.dims[n] - 1 ELSE c.dims[n]]]]

\* the warning of Coord.collapsed for a coordinate that is not contiguous
CollapseWarnings(cube, d) ==
    IF \E k \in 1..Len(cube.coords) :
          InSeq(d, cube.coords[k].dims) /\ ~Contiguous(cube.coords[k])
    THEN {"noncontiguous"} ELSE {}

(* Cube.collapsed hands an aggregator the data with the collapsed          *)
(* dimension moved to the end, and axis=-1                                 *)
Unrolled(data, d) == Transpose(data, Without(RangeSeq(0, Rank(data)), <<d>>) \o <<d>>)

\* np.ones(num) / float(num)
RECURSIVE Repeat(_, _)
Repeat(x, n) == IF n = 0 THEN <<>> ELSE <<x>> \o Repeat(x, n - 1)
UniformWeights(num) == Repeat(Rat(1, num), num)

\* iris.util.broadcast_to_shape(weights, shape, dims) for 1-d weights
BroadcastToShape(weights, shape, dims) ==
    [shape |-> shape,
     val |-> [idx \in Indices(shape) |-> weights[idx[dims[1] + 1] + 1]]]

\* the values along dimension d at the position idx of the other dimensions
Along(arr, d, idx) ==
    [k \in 1..arr.shape[d + 1] |-> arr.val[InsertAt(idx, d, k - 1)]]

\* iris.analysis.MEAN without weights
Mean(data, d) ==
    [shape |-> RemoveAt(data.shape, d),
     val |-> [idx \in Indices(RemoveAt(data.shape, d)) |->
                 RDiv(RSum(RSeq(Along(data, d, idx))), RInt(data.shape[d + 1]))]]

\* the weights are not used
WeightedMeanIgnoringWeights(data, d, weights_array) == Mean(data, d)

\* iris.analysis.MEAN with weights: sum(w * x) / sum(w) along d
WeightedMean(data, d, weights_array) ==
    [shape |-> RemoveAt(data.shape, d),
     val |-> [idx \in Indices(RemoveAt(data.shape, d)) |->
                 LET x == Along(data, d, idx)
                     w == Along(weights_array, d, idx)
                 IN  RDiv(RSum([k \in 1..Len(x) |-> RMul(w[k], RInt(x[k]))]),
                          RSum(w))]]

(***************************************************************************)
(* WeightedBlendAcrossWholeDimension.process                               *)
(*                                                                         *)
(* self is the plugin [coord, coord_adjust], weights is NoWeights (None)   *)
(* or GivenWeights(w).  The outcome records whether the call returned or   *)
(* raised, the branch it took, the warnings issued, the field returned     *)
(* and the caller's field after the call.                                  *)
(***************************************************************************)
NoWeights == [given |-> FALSE, arr |-> <<>>]
GivenWeights(w) == [given |-> TRUE, arr |-> w]

NoCube == [kind |-> "none", data |-> [shape |-> <<>>, val |-> <<>>], coords |-> <<>>]

Raise(path, cube) ==
    [status |-> "raised", path |-> path, warnings |-> {}, result |-> NoCube,
     cube |-> cube]

\* the name is the word itself
IsPercentileNameExact(name) == name = NamePercentile

\* coord.name().find('percentile') >= 0
IsPercentileName(name) == Find(name, NamePercentile) >= 0

\* the loop over cube.coords(): how many percentile coordinates, and the last
RECURSIVE PercScan(_, _, _)
PercScan(coords, k, found) ==
    IF k > Len(coords) THEN found
    ELSE IF IsPercentileName(coords[k].name)
         THEN PercScan(coords, k + 1,
                       [perc_found |-> found.perc_found + 1, perc_coord |-> k])
         ELSE PercScan(coords, k + 1, found)
PercentileCoords(cube) == PercScan(cube.coords, 1, [perc_found |-> 0, perc_coord |-> 0])

\* the checks on the percentile coordinates raise
PercentileCheckFails(cube) ==
    LET found == PercentileCoords(cube) IN
    IF found.perc_found = 1
    THEN \/ cube.coords[found.perc_coord].dims = <<>>
         \/ Len(cube.coords[found.perc_coord].points) < 2
    ELSE found.perc_found > 1

\* the shapes are compared only when the coordinate is a dimension
WeightsShapeDiffersOnDimension(cube, coord, weights) ==
    /\ coord_dims(cube, coord) # <<>>
    /\ <<Len(weights)>> # <<Len(CoordOf(cube, coord).points)>>

\* np.array(weights).shape != cube.coord(self.coord).points.shape
WeightsShapeDiffers(cube, coord, weights) ==
    <<Len(weights)>> # <<Len(CoordOf(cube, coord).points)>>

\* the original field is returned without the warning
ReturnOriginalSilently(cube) ==
    [status |-> "returned", path |-> "noop", warnings |-> {}, result |-> cube,
     cube |-> cube]

\* blending across a scalar coordinate: warn and return the original field
ReturnOriginal(cube) ==
    [status |-> "returned", path |-> "noop", warnings |-> {"scalar"},
     result |-> cube, cube |-> cube]

\* Aggregator.post_process: the collapsed field takes the aggregated data,
\* which must have the shape of the field without the collapsed dimension
post_process(cube, d, data_result) ==
    IF data_result.status = "raised" THEN Raise("percentile", cube)
    ELSE IF data_result.shape # RemoveAt(cube.data.shape, d)
         THEN Raise("percentile", cube)
    ELSE [status |-> "returned", path |-> "percentile",
          warnings |-> CollapseWarnings(cube, d),
          result |-> [kind |-> "cube",
                      data |-> [shape |-> data_result.shape, val |-> data_result.val],
                      coords |-> CollapsedCoords(cube, d)],
          cube |-> cube]

\* cube.collapsed(self.coord, PERCENTILE_BLEND, ..)
PercentileCollapse(cube, d, arr_percent, arr_weights, perc_dim) ==
    post_process(cube, d,
                 aggregate(Unrolled(cube.data, d), -1, arr_percent, arr_weights,
                           perc_dim))

\* cube.collapsed(self.coord, iris.analysis.MEAN, weights=weights_array)
MeanCollapse(cube, d, weights) ==
    [status |-> "returned", path |-> "mean",
     warnings |-> CollapseWarnings(cube, d),
     result |-> [kind |-> "cube",
                 data |-> IF weights.given
                          THEN WeightedMean(cube.data, d,
                                   BroadcastToShape(weights.arr, cube.data.shape, <<d>>))
                          ELSE Mean(cube.data, d),
                 coords |-> CollapsedCoords(cube, d)],
     cube |-> cube]

\* the functions callers configure as coord_adjust
Adjust(coord_adjust, pnts) ==
    IF coord_adjust = "middle" THEN <<pnts[(Len(pnts) \div 2) + 1]>>
    ELSE <<RAdd(pnts[Len(pnts)], RInt(1))>>

\* the loop over result.coords() that recomputes points
AdjustedCoords(result, cube, coord_dim, coord_adjust) ==
    [k \in 1..Len(result.coords) |->
        LET crd == result.coords[k] IN
        IF coord_dims(cube, crd.name) = coord_dim
        THEN [crd EXCEPT !.points = Adjust(coord_adjust, CoordOf(cube, crd.name).points)]
        ELSE crd]

\* on the no-op path result is the caller's field itself
AdjustCoords(self, cube, coord_dim, out) ==
    IF out.status = "raised" \/ self.coord_adjust = "none" THEN out
    ELSE LET adjusted == [out.result EXCEPT !.coords =
                              AdjustedCoords(out.result, cube, coord_dim,
                                             self.coord_adjust)]
         IN  [out EXCEPT !.result = adjusted,
                         !.cube = IF out.path = "noop" THEN adjusted ELSE out.cube]

process(self, cube, weights) ==
    IF cube.kind # "cube" THEN Raise("validate", cube)
    ELSE IF PercentileCheckFails(cube) THEN Raise("validate", cube)
    ELSE IF ~CoordFound(cube, self.coord) THEN Raise("validate", cube)
    ELSE IF weights.given /\ WeightsShapeDiffers(cube, self.coord, weights.arr)
         THEN Raise("validate", cube)
    ELSE
    LET coord_dim == coord_dims(cube, self.coord)
        found == PercentileCoords(cube)
        perc_coord == cube.coords[found.perc_coord]
        num == Len(CoordOf(cube, self.coord).points)
        out == IF coord_dim = <<>> THEN ReturnOriginal(cube)
               ELSE IF found.perc_found > 0
                    THEN PercentileCollapse(cube, coord_dim[1], perc_coord.points,
                             IF weights.given THEN weights.arr ELSE UniformWeights(num),
                             perc_coord.dims[1])
               ELSE MeanCollapse(cube, coord_dim[1], weights)
    IN  AdjustCoords(self, cube, coord_dim, out)

(***************************************************************************)
(* Inputs of kernel calls.                                                 *)
(***************************************************************************)
\* non-decreasing value vectors of length L over 0..MaxVal
ValueVectors(L) ==
    {s \in [1..L -> 0..MaxVal] : \A k \in 1..(L - 1) : s[k] <= s[k + 1]}

\* strictly increasing percentile vectors of length L over 0..L
PercentileVectors(L) ==
    {s \in [1..L -> 0..L] : \A k \in 1..(L - 1) : s[k] < s[k + 1]}

\* the weights callers pass: non-negative rationals
Weights == {<<1, 10>>, <<1, 2>>, <<9, 10>>, <<1, 1>>}
\* weight vectors of length N summing to 1
WeightVectors(N) == {w \in [1..N -> Weights] : RSum(w) = RInt(1)}

RECURSIVE Reverse(_)
Reverse(s) == IF s = <<>> THEN <<>> ELSE Reverse(Tail(s)) \o <<Head(s)>>

Null == "null"
\* no call made yet
NoCall == [weights |-> <<>>, result |-> <<>>]

\* the values of the variables of a call while no such call is going on
NoConfig == [blend |-> -1, perc |-> -1, perc2 |-> FALSE, perc_first |-> FALSE,
             has_x |-> FALSE, has_fp |-> FALSE, bounded |-> FALSE]
NoPlugin == [self |-> [coord |-> <<>>, coord_adjust |-> "none"],
             weights |-> NoWeights, cfg |-> NoConfig]
NoOutcome == [status |-> "none", path |-> "none", warnings |-> {}, result |-> NoCube,
              cube |-> NoCube]
NoTriangular == [self |-> [coord |-> <<>>, width |-> 0], cfg |-> NoConfig]
NoRun == [status |-> "none", coords_to_correct |-> {}, result |-> <<>>, final |-> NoCube]

Init ==
    /\ pc = "idle"
    /\ kin = Null
    /\ kout = NoCall
    /\ kprev = NoCall
    /\ ain = Null
    /\ aout = Raised
    /\ field = NoCube
    /\ orig = NoCube
    /\ pin = NoPlugin
    /\ pout = NoOutcome
    /\ tin = NoTriangular
    /\ tri = NoRun

(* A caller prepares the arguments of blend_percentiles. *)
ChooseSlices ==
    /\ pc = "idle"
    /\ \E N \in SliceCounts, L \in 1..MaxLevels :
         \E pv \in [1..N -> ValueVectors(L)], p \in PercentileVectors(L),
            w \in WeightVectors(N) :
            kin' = [perc_values |-> pv, percentiles |-> p, weights |-> w]
    /\ pc' = "kernel_ready"
    /\ UNCHANGED <<kout, kprev, avars, field, orig, pvars, tvars>>

(* One call of blend_percentiles on the prepared arguments. *)
CallBlendPercentiles ==
    /\ pc = "kernel_ready"
    /\ kout' = [weights |-> kin.weights,
                result |-> blend_percentiles(
                    [i \in 1..Len(kin.perc_values) |-> RSeq(kin.perc_values[i])],
                    RSeq(kin.percentiles), kin.weights)]
    /\ pc' = "kernel_done"
    /\ UNCHANGED <<kin, kprev, avars, field, orig, pvars, tvars>>

(* The caller keeps the result and repeats the call on the same slices     *)
(* with the weights in reverse order.                                      *)
RepeatReversed ==
    /\ pc = "kernel_done"
    /\ kprev = NoCall
    /\ Reverse(kin.weights) # kin.weights
    /\ kprev' = kout
    /\ kin' = [kin EXCEPT !.weights = Reverse(kin.weights)]
    /\ kout' = NoCall
    /\ pc' = "kernel_ready"
    /\ UNCHANGED <<avars, field, orig, pvars, tvars>>

KernelReturn ==
    /\ pc = "kernel_done"
    /\ pc' = "idle"
    /\ kin' = Null
    /\ kout' = NoCall
    /\ kprev' = NoCall
    /\ UNCHANGED <<avars, field, orig, pvars, tvars>>

NextKernel ==
    \/ ChooseSlices
    \/ CallBlendPercentiles
    \/ RepeatReversed
    \/ KernelReturn

SpecKernel == Init /\ [][NextKernel]_vars

(***************************************************************************)
(* Claims about blend_percentiles.                                         *)
(***************************************************************************)
RECURSIVE L1From(_, _, _)
L1From(r, v, k) ==
    IF k > Len(r) THEN RInt(0)
    ELSE RAdd(RAbs(RSub(r[k], RInt(v[k]))), L1From(r, v, k + 1))

\* L1 distance between a blended curve and a slice
L1(r, v) == L1From(r, v, 1)

StrictlyIncreasing(v) == \A k \in 1..(Len(v) - 1) : v[k] < v[k + 1]

IdenticalSlices ==
    /\ pc = "kernel_done"
    /\ \A i \in 1..Len(kin.perc_values) : kin.perc_values[i] = kin.perc_values[1]

(* C8: blending N slices that all hold the same (non-decreasing)           *)
(* percentile values, with non-negative weights summing to 1, returns      *)
(* exactly those values.                                                   *)
C8_IdenticalSlicesIdentity ==
    IdenticalSlices => kout.result = RSeq(kin.perc_values[1])

TwoDistinctSlices ==
    /\ pc = "kernel_done"
    /\ Len(kin.perc_values) = 2
    /\ Len(kin.percentiles) >= 2
    /\ kin.perc_values[1] # kin.perc_values[2]

(* C10 as claimed: with two distinct non-decreasing slices A and B, the    *)
(* result for weights [0.9, 0.1] is no farther (L1) from A than from B,    *)
(* and the result for weights [0.1, 0.9] is no farther from B than from A. *)
C10_CloserToHigherWeighted ==
    TwoDistinctSlices =>
        LET A == kin.perc_values[1]
            B == kin.perc_values[2]
            r == kout.result
        IN  /\ kout.weights = <<<<9, 10>>, <<1, 10>>>> => RLe(L1(r, A), L1(r, B))
            /\ kout.weights = <<<<1, 10>>, <<9, 10>>>> => RLe(L1(r, B), L1(r, A))

ReweightedPair ==
    /\ TwoDistinctSlices
    /\ kprev # NoCall
    /\ StrictlyIncreasing(kin.perc_values[1])
    /\ StrictlyIncreasing(kin.perc_values[2])
    /\ kprev.weights = <<<<9, 10>>, <<1, 10>>>>
    /\ kout.weights = <<<<1, 10>>, <<9, 10>>>>

(* C10 amended: for two distinct strictly increasing slices A and B, the   *)
(* result for weights [0.9, 0.1] is no farther (L1) from A than the result *)
(* for weights [0.1, 0.9] is, and the latter is no farther from B than the *)
(* former.                                                                 *)
C10_WeightMovesTowardSlice ==
    ReweightedPair =>
        LET A == kin.perc_values[1]
            B == kin.perc_values[2]
        IN  /\ RLe(L1(kprev.result, A), L1(kout.result, A))
            /\ RLe(L1(kout.result, B), L1(kprev.result, B))

C10_Witness ==
    /\ ReweightedPair
    /\ RLt(L1(kprev.result, kin.perc_values[1]), L1(kout.result, kin.perc_values[1]))
    /\ RLt(L1(kout.result, kin.perc_values[2]), L1(kprev.result, kin.perc_values[2]))


(***************************************************************************)
(* Calls of PercentileBlendingAggregator.aggregate.                        *)
(***************************************************************************)

\* Data that tells where each value came from: the same in every slice
\* along the blend axis, the level index plus a multiple of the number of
\* levels that numbers the remaining (spatial) position.
CodedData(shape, a, p) ==
    LET L == shape[p + 1]
        drop == IF a = p THEN <<a>> ELSE IF a < p THEN <<a, p - 1>> ELSE <<p, a - 1>>
        Rest(s) == IF a = p THEN RemoveAt(s, a)
                   ELSE RemoveAt(RemoveAt(s, drop[1]), drop[2])
    IN  [shape |-> shape,
         val |-> [idx \in Indices(shape) |->
                     idx[p + 1] + L * Ravel(Rest(idx), Rest(shape))]]

\* weights n/s, (n-1)/s, .., 1/s with s their sum
RECURSIVE Ramp(_, _)
Ramp(n, sum) == IF n = 0 THEN <<>> ELSE <<Rat(n, sum)>> \o Ramp(n - 1, sum)
RampWeights(num) == Ramp(num, (num * (num + 1)) \div 2)

ChooseArray ==
    /\ pc = "idle"
    /\ \E R \in 1..MaxRank :
         \E shape \in [1..R -> 1..MaxDim], axis \in (-R)..(R - 1), perc_dim \in 0..(R - 1) :
            \E arr_percent \in PercentileVectors(shape[perc_dim + 1]),
               arr_weights \in {UniformWeights(shape[NormAxis(axis, R) + 1]),
                                RampWeights(shape[NormAxis(axis, R) + 1])} :
               ain' = [data |-> CodedData(shape, NormAxis(axis, R), perc_dim),
                       axis |-> axis,
                       arr_percent |-> arr_percent,
                       arr_weights |-> arr_weights,
                       perc_dim |-> perc_dim]
    /\ pc' = "aggregate_ready"
    /\ UNCHANGED <<aout, kvars, field, orig, pvars, tvars>>

CallAggregate ==
    /\ pc = "aggregate_ready"
    /\ aout' = aggregate(ain.data, ain.axis, RSeq(ain.arr_percent),
                         ain.arr_weights, ain.perc_dim)
    /\ pc' = "aggregate_done"
    /\ UNCHANGED <<ain, kvars, field, orig, pvars, tvars>>

AggregateReturn ==
    /\ pc = "aggregate_done"
    /\ pc' = "idle"
    /\ ain' = Null
    /\ aout' = Raised
    /\ UNCHANGED <<kvars, field, orig, pvars, tvars>>

NextAggregate == ChooseArray \/ CallAggregate \/ AggregateReturn

SpecAggregate == Init /\ [][NextAggregate]_vars

\* the blend axis as a non-negative index
BlendAxis == NormAxis(ain.axis, Rank(ain.data))

AggregateCalled ==
    /\ pc = "aggregate_done"
    /\ Rank(ain.data) >= 2
    /\ BlendAxis # ain.perc_dim

(* C1: for rank R >= 2, percentile axis p and blend axis a # p (given as a *)
(* non-negative index or as a - R), aggregate returns an array of rank     *)
(* R - 1: the blend axis is removed, the other axes keep their order and   *)
(* lengths, every value is found where its source position says, and the   *)
(* percentile axis is at p - 1 when a < p and at p when a > p.             *)
C1_AxisPlacement ==
    AggregateCalled =>
        LET a == BlendAxis
            p == ain.perc_dim
            L == ain.data.shape[p + 1]
            dest == IF a < p THEN p - 1 ELSE p
        IN  /\ aout.status = "returned"
            /\ Len(aout.shape) = Rank(ain.data) - 1
            /\ aout.shape = RemoveAt(ain.data.shape, a)
            /\ \A idx \in Indices(aout.shape) :
                  /\ aout.val[idx] = RInt(ain.data.val[InsertAt(idx, a, 0)])
                  /\ aout.val[idx][1] % L = idx[dest + 1]

C1_Witness ==
    /\ AggregateCalled
    /\ Rank(ain.data) = 3
    /\ ain.data.shape = <<2, 1, 2>>
    /\ ain.axis = -3
    /\ ain.perc_dim = 2
    /\ aout.status = "returned"
    /\ aout.shape = <<1, 2>>

(***************************************************************************)
(* Calls of WeightedBlendAcrossWholeDimension.process.                     *)
(*                                                                         *)
(* The fields are built from a description cfg: blend and perc say what    *)
(* the time and the percentile coordinate are (-1: absent, 0: a scalar     *)
(* coordinate, n >= 1: a dimension of length n), perc2 adds a second,      *)
(* scalar percentile coordinate, perc_first puts the percentile dimension  *)
(* before the time dimension, has_x adds a spatial dimension, has_fp a     *)
(* forecast_period coordinate beside time, bounded gives both bounds.      *)
(***************************************************************************)
TimePoints(n) == [k \in 1..n |-> RInt(((k - 1) * k) \div 2)]
PercentilePoints(n) == [k \in 1..n |-> RInt(k)]
HalfCells(points) ==
    [k \in 1..Len(points) |->
        <<RSub(points[k], Rat(1, 2)), RAdd(points[k], Rat(1, 2))>>]
Shifted(points, by) == [k \in 1..Len(points) |-> RAdd(points[k], RInt(by))]

MakeCube(cfg, tvals) ==
    LET T == cfg.blend
        L == cfg.perc
        tdim == IF T >= 1 THEN (IF L >= 1 /\ cfg.perc_first THEN 1 ELSE 0) ELSE -1
        pdim == IF L >= 1 THEN (IF T >= 1 /\ ~cfg.perc_first THEN 1 ELSE 0) ELSE -1
        lead == IF T >= 1 /\ L >= 1
                THEN (IF cfg.perc_first THEN <<L, T>> ELSE <<T, L>>)
                ELSE IF T >= 1 THEN <<T>> ELSE IF L >= 1 THEN <<L>> ELSE <<>>
        xdim == IF cfg.has_x THEN Len(lead) ELSE -1
        shape == lead \o (IF cfg.has_x THEN <<MaxDim>> ELSE <<>>)
        At(idx, d) == IF d < 0 THEN 0 ELSE idx[d + 1]
        Dims(d) == IF d < 0 THEN <<>> ELSE <<d>>
        tpoints == TimePoints(IF T >= 1 THEN T ELSE 1)
        Bounds(points) == IF cfg.bounded THEN HalfCells(points) ELSE NoBounds
        time == [name |-> NameTime, dims |-> Dims(tdim), points |-> tpoints,
                 bounds |-> Bounds(tpoints)]
        forecast_period == [name |-> NameForecastPeriod, dims |-> Dims(tdim),
                            points |-> Shifted(tpoints, 10),
                            bounds |-> Bounds(Shifted(tpoints, 10))]
        percentile_over_time ==
            [name |-> NamePercentileOverTime, dims |-> Dims(pdim),
             points |-> PercentilePoints(IF L >= 1 THEN L ELSE 1),
             bounds |-> NoBounds]
        percentile == [name |-> NamePercentile, dims |-> <<>>,
                       points |-> <<RInt(50)>>, bounds |-> NoBounds]
        height == [name |-> NameHeight, dims |-> <<>>, points |-> <<RInt(2)>>,
                   bounds |-> NoBounds]
        x == [name |-> NameX, dims |-> Dims(xdim), points |-> PercentilePoints(MaxDim),
              bounds |-> NoBounds]
    IN  [kind |-> "cube",
         data |-> [shape |-> shape,
                   val |-> [idx \in Indices(shape) |->
                               tvals[At(idx, tdim) + 1] + At(idx, pdim) + At(idx, xdim)]],
         coords |-> (IF T >= 0 THEN <<time>> ELSE <<>>)
                    \o (IF T >= 0 /\ cfg.has_fp THEN <<forecast_period>> ELSE <<>>)
                    \o (IF L >= 0 THEN <<percentile_over_time>> ELSE <<>>)
                    \o (IF cfg.perc2 THEN <<percentile>> ELSE <<>>)
                    \o <<height>>
                    \o (IF cfg.has_x THEN <<x>> ELSE <<>>)]

\* something that is not a field
NotACube == [kind |-> "other", data |-> [shape |-> <<>>, val |-> <<>>], coords |-> <<>>]

FieldConfigs ==
    {cfg \in [blend : (-1)..MaxPoints, perc : (-1)..MaxLevels, perc2 : BOOLEAN,
              perc_first : BOOLEAN, has_x : BOOLEAN, has_fp : BOOLEAN,
              bounded : BOOLEAN] :
        /\ cfg.perc_first => (cfg.blend >= 1 /\ cfg.perc >= 1)
        /\ (cfg.has_fp \/ cfg.bounded) => cfg.blend >= 0}


\* data that rise by one from each time to the next
DataRamp(n) == [k \in 1..n |-> k - 1]

CoordAdjusts == {"none", "middle", "shift"}


(* A caller builds a field, configures the plugin and picks the weights. *)
ChooseField ==
    /\ pc = "idle"
    /\ \E cfg \in FieldConfigs, coord \in {NameTime, NamePercentileOverTime},
          coord_adjust \in CoordAdjusts, is_cube \in BOOLEAN :
         \E weights \in {NoWeights}
                \cup {GivenWeights(UniformWeights(n)) : n \in 1..MaxPoints}
                \cup {GivenWeights(RampWeights(n)) : n \in 1..MaxPoints} :
            /\ is_cube \/ (cfg = NoConfig /\ coord = NameTime /\ coord_adjust = "none")
            /\ field' = IF is_cube
                       THEN MakeCube(cfg, DataRamp(IF cfg.blend >= 1 THEN cfg.blend ELSE 1))
                       ELSE NotACube
            /\ pin' = [self |-> [coord |-> coord, coord_adjust |-> coord_adjust],
                       weights |-> weights, cfg |-> cfg]
    /\ orig' = field'
    /\ pc' = "process_ready"
    /\ UNCHANGED <<pout, kvars, avars, tvars>>

(* One call of process; the field it was given may come back changed. *)
CallProcess ==
    /\ pc = "process_ready"
    /\ pout' = process(pin.self, field, pin.weights)
    /\ field' = pout'.cube
    /\ pc' = "process_done"
    /\ UNCHANGED <<orig, pin, kvars, avars, tvars>>

ProcessReturn ==
    /\ pc = "process_done"
    /\ pc' = "idle"
    /\ field' = NoCube
    /\ orig' = NoCube
    /\ pin' = NoPlugin
    /\ pout' = NoOutcome
    /\ UNCHANGED <<kvars, avars, tvars>>

NextProcess == ChooseField \/ CallProcess \/ ProcessReturn

SpecProcess == Init /\ [][NextProcess]_vars

ProcessCalled == pc = "process_done" /\ orig.kind = "cube"

\* what the coordinate blended over is: -1 absent, 0 scalar, n a dimension of length n
BlendLen == IF pin.self.coord = NameTime THEN pin.cfg.blend ELSE pin.cfg.perc

\* how many coordinates of the field have a percentile name
PercentileNamed == (IF pin.cfg.perc >= 0 THEN 1 ELSE 0) + (IF pin.cfg.perc2 THEN 1 ELSE 0)

(* C2: with more than one percentile-named coordinate the call raises;     *)
(* with exactly one it raises unless that coordinate is a dimension with   *)
(* at least two points; a call that blends by the mean had no such         *)
(* coordinate and one that blends percentiles had exactly one; a call      *)
(* that raises returns no field.                                           *)
C2_PercentileClassification ==
    ProcessCalled =>
        /\ PercentileNamed > 1 => pout.status = "raised"
        /\ (PercentileNamed = 1 /\ pin.cfg.perc < 2) => pout.status = "raised"
        /\ pout.path = "mean" => PercentileNamed = 0
        /\ pout.path = "percentile" => (PercentileNamed = 1 /\ pin.cfg.perc >= 2)
        /\ (pout.status = "returned" /\ BlendLen >= 1) =>
              pout.path = (IF PercentileNamed = 0 THEN "mean" ELSE "percentile")
        /\ pout.status = "raised" => pout.result = NoCube

C2_Witness ==
    /\ ProcessCalled
    /\ pin.cfg.perc = 1
    /\ ~pin.cfg.perc2
    /\ pin.cfg.blend = 2
    /\ pin.self.coord = NameTime
    /\ ~pin.weights.given
    /\ pout.status = "raised"

(* C3: when weights are supplied and their number differs from the number  *)
(* of points of the blend coordinate, the call raises and returns no       *)
(* field, also when the blend coordinate is a scalar coordinate.           *)
C3_WeightsShapeChecked ==
    (ProcessCalled /\ pin.weights.given /\ BlendLen >= 0
        /\ Len(pin.weights.arr) # (IF BlendLen = 0 THEN 1 ELSE BlendLen)) =>
        /\ pout.status = "raised"
        /\ pout.result = NoCube

C3_Witness ==
    /\ ProcessCalled
    /\ pin.self.coord = NameTime
    /\ pin.cfg.blend = 0
    /\ PercentileNamed = 0
    /\ pin.weights.given
    /\ Len(pin.weights.arr) = 2
    /\ pout.status = "raised"

\* the field and the weights pass the checks of process
ValidCall ==
    /\ ProcessCalled
    /\ BlendLen >= 0
    /\ PercentileNamed = 0 \/ (PercentileNamed = 1 /\ pin.cfg.perc >= 2)
    /\ pin.weights.given =>
          Len(pin.weights.arr) = (IF BlendLen = 0 THEN 1 ELSE BlendLen)

C5_NoOpReturnsInputUnchanged ==
    (ProcessCalled /\ pout.path = "noop") =>
        /\ pout.result = orig
        /\ field = orig

(***************************************************************************)
(* Mean-mode calls of process on fields with arbitrary data along the      *)
(* blend dimension.                                                        *)
(***************************************************************************)
MeanWeights == {<<1, 5>>, <<3, 10>>, <<1, 2>>}

ChooseMeanField ==
    /\ pc = "idle"
    /\ \E T \in 1..MaxPoints, has_x \in BOOLEAN :
         \E tvals \in [1..T -> 0..MaxVal],
            weights \in {NoWeights} \cup {GivenWeights(w) : w \in [1..T -> MeanWeights]} :
            LET cfg == [NoConfig EXCEPT !.blend = T, !.has_x = has_x] IN
            /\ field' = MakeCube(cfg, tvals)
            /\ pin' = [self |-> [coord |-> NameTime, coord_adjust |-> "none"],
                       weights |-> weights, cfg |-> cfg]
    /\ orig' = field'
    /\ pc' = "process_ready"
    /\ UNCHANGED <<pout, kvars, avars, tvars>>

NextMean == ChooseMeanField \/ CallProcess \/ ProcessReturn

SpecMean == Init /\ [][NextMean]_vars

(* C9: in mean-mode the call returns, with the blend dimension removed,    *)
(* at every position of the other dimensions the sum of weight times       *)
(* value along the blend dimension divided by the sum of the weights;      *)
(* without weights the result is the one for the N weights 1/N.            *)
C9_WeightedMean ==
    (ProcessCalled /\ PercentileNamed = 0 /\ BlendLen >= 1) =>
        LET d == coord_dims(orig, pin.self.coord)[1]
            N == orig.data.shape[d + 1]
            w == IF pin.weights.given THEN pin.weights.arr ELSE UniformWeights(N)
        IN  /\ pout.status = "returned"
            /\ pout.path = "mean"
            /\ pout.result.data.shape = RemoveAt(orig.data.shape, d)
            /\ \A idx \in Indices(pout.result.data.shape) :
                  RMul(pout.result.data.val[idx], RSum(w)) =
                      RSum([k \in 1..N |->
                               RMul(w[k], RInt(orig.data.val[InsertAt(idx, d, k - 1)]))])

\* values 1, 2, 3 with weights 0.2, 0.3, 0.5 give 2.3
C9_Witness ==
    /\ ProcessCalled
    /\ orig.data.shape = <<3>>
    /\ orig.data.val[<<0>>] = 1
    /\ orig.data.val[<<1>>] = 2
    /\ orig.data.val[<<2>>] = 3
    /\ pin.weights = GivenWeights(<<Rat(1, 5), Rat(3, 10), Rat(1, 2)>>)
    /\ pout.status = "returned"
    /\ pout.result.data.val[<<>>] = Rat(23, 10)

(***************************************************************************)
(* TriangularWeightedBlendAcrossAdjacentPoints.process                     *)
(***************************************************************************)
\* Coord.guess_bounds raises for a coordinate with bounds or with one point
GuessBoundsRaises(c) == HasBounds(c) \/ Len(c.points) < 2

\* Coord.guess_bounds: cells that meet half way between neighbouring points
GuessedBounds(points) ==
    LET n == Len(points)
        diff(k) == RSub(points[k + 1], points[k])
        before(k) == IF k = 1 THEN diff(1) ELSE diff(k - 1)
        after(k) == IF k = n THEN diff(n - 1) ELSE diff(k)
    IN  [k \in 1..n |->
            <<RSub(points[k], RMul(before(k), Rat(1, 2))),
              RAdd(points[k], RMul(after(k), Rat(1, 2)))>>]

\* cube.coords(dimensions=dims): the positions of the coordinates on dims
CoordsOnDims(cube, dims) == {k \in 1..Len(cube.coords) : cube.coords[k].dims = dims}

\* the loop calling guess_bounds on the coordinates to correct, in order,
\* up to the first that raises
RECURSIVE GuessAll(_, _, _)
GuessAll(cube, dims, k) ==
    IF k > Len(cube.coords) THEN [raised |-> FALSE, cube |-> cube]
    ELSE IF k \notin CoordsOnDims(cube, dims) THEN GuessAll(cube, dims, k + 1)
    ELSE IF GuessBoundsRaises(cube.coords[k]) THEN [raised |-> TRUE, cube |-> cube]
    ELSE GuessAll([cube EXCEPT !.coords[k].bounds = GuessedBounds(cube.coords[k].points)],
                  dims, k + 1)

\* the i-th of cube.slices_over(coord) for a coordinate along dimension d
SliceOver(cube, d, i) ==
    [kind |-> "cube",
     data |-> [shape |-> RemoveAt(cube.data.shape, d),
               val |-> [idx \in Indices(RemoveAt(cube.data.shape, d)) |->
                           cube.data.val[InsertAt(idx, d, i)]]],
     coords |-> [k \in 1..Len(cube.coords) |->
                    LET c == cube.coords[k] IN
                    IF InSeq(d, c.dims)
                    THEN [name |-> c.name, dims |-> <<>>, points |-> <<c.points[i + 1]>>,
                          bounds |-> IF HasBounds(c) THEN <<c.bounds[i + 1]>> ELSE NoBounds]
                    ELSE [c EXCEPT !.dims = [n \in 1..Len(c.dims) |->
                                    IF c.dims[n] > d THEN c.dims[n] - 1 ELSE c.dims[n]]]]]

\* ChooseDefaultWeightsTriangular.process: weights falling linearly from the
\* centre to zero at the distance width, scaled to sum to one
TriangularWeights(points, width, point) ==
    LET raw == [k \in 1..Len(points) |->
                   LET dist == RAbs(RSub(points[k], point)) IN
                   IF RLt(dist, RInt(width)) THEN RSub(RInt(width), dist) ELSE RInt(0)]
    IN  [k \in 1..Len(points) |-> RDiv(raw[k], RSum(raw))]

(* correct_collapsed_coordinates(orig_cube, new_cube, coords_to_correct) *)
correct_collapsed_coordinates(orig_cube, new_cube, coords_to_correct) ==
    [new_cube EXCEPT !.coords =
        [k \in 1..Len(new_cube.coords) |->
            LET new_coord == new_cube.coords[k]
                old_coord == CoordOf(orig_cube, new_coord.name)
            IN  IF new_coord.name \in coords_to_correct
                THEN [new_coord EXCEPT
                         !.points = old_coord.points,
                         !.bounds = IF HasBounds(old_coord) THEN old_coord.bounds
                                    ELSE new_coord.bounds]
                ELSE new_coord]]

\* concatenate_cubes: the results stacked in list order along a new leading
\* dimension that the corrected coordinates describe
concatenate_cubes(result, coords_to_correct) ==
    LET first == result[1] IN
    [kind |-> "cube",
     data |-> [shape |-> <<Len(result)>> \o first.data.shape,
               val |-> [idx \in Indices(<<Len(result)>> \o first.data.shape) |->
                           result[idx[1] + 1].data.val[Tail(idx)]]],
     coords |-> [k \in 1..Len(first.coords) |->
                    LET c == first.coords[k] IN
                    IF c.name \in coords_to_correct
                    THEN [name |-> c.name, dims |-> <<0>>,
                          points |-> [i \in 1..Len(result) |-> result[i].coords[k].points[1]],
                          bounds |-> [i \in 1..Len(result) |-> result[i].coords[k].bounds[1]]]
                    ELSE [c EXCEPT !.dims = [n \in 1..Len(c.dims) |-> c.dims[n] + 1]]]]


(* A caller builds a field and configures the triangular plugin. *)
ChooseTriangular ==
    /\ pc = "idle"
    /\ \E cfg \in FieldConfigs, width \in 1..MaxWidth :
         /\ field' = MakeCube(cfg, DataRamp(IF cfg.blend >= 1 THEN cfg.blend ELSE 1))
         /\ tin' = [self |-> [coord |-> NameTime, width |-> width], cfg |-> cfg]
    /\ orig' = field'
    /\ pc' = "triangular_ready"
    /\ UNCHANGED <<tri, pvars, kvars, avars>>

(* process up to the loop: the coordinates to correct are found and bounds *)
(* are guessed on each of them, on the field of the caller.                *)
TriangularGuessBounds ==
    /\ pc = "triangular_ready"
    /\ IF ~CoordFound(field, tin.self.coord)
       THEN /\ tri' = [NoRun EXCEPT !.status = "raised"]
            /\ pc' = "triangular_done"
            /\ UNCHANGED field
       ELSE LET dimension_to_collapse == coord_dims(field, tin.self.coord)
                guessed == GuessAll(field, dimension_to_collapse, 1)
            IN  /\ field' = guessed.cube
                /\ tri' = [NoRun EXCEPT
                              !.status = IF guessed.raised THEN "raised" ELSE "running",
                              !.coords_to_correct =
                                  {field.coords[k].name :
                                      k \in CoordsOnDims(field, dimension_to_collapse)}]
                /\ pc' = IF guessed.raised THEN "triangular_done" ELSE "triangular_loop"
    /\ UNCHANGED <<orig, tin, pvars, kvars, avars>>

\* the rest of a turn of the loop: the blended field is corrected and
\* appended, unless the blend raised
Blended(run, cube_slice, blended) ==
    IF blended.status = "raised"
    THEN [run EXCEPT !.status = "raised", !.result = <<>>]
    ELSE [run EXCEPT !.result =
             Append(@, correct_collapsed_coordinates(cube_slice, blended.result,
                                                     run.coords_to_correct))]

(* One turn of the loop over cube.slices_over(self.coord). *)
TriangularBlendPoint ==
    /\ pc = "triangular_loop"
    /\ Len(tri.result) < Len(CoordOf(field, tin.self.coord).points)
    /\ LET d == coord_dims(field, tin.self.coord)[1]
           cube_slice == SliceOver(field, d, Len(tri.result))
           point == CoordOf(cube_slice, tin.self.coord).points[1]
           weights == TriangularWeights(CoordOf(field, tin.self.coord).points,
                                        tin.self.width, point)
       IN  tri' = Blended(tri, cube_slice,
                          process([coord |-> tin.self.coord, coord_adjust |-> "none"],
                                  field, GivenWeights(weights)))
    /\ pc' = IF tri'.status = "raised" THEN "triangular_done" ELSE "triangular_loop"
    /\ UNCHANGED <<field, orig, tin, pvars, kvars, avars>>

(* After the loop the results are concatenated and returned. *)
TriangularConcatenate ==
    /\ pc = "triangular_loop"
    /\ Len(tri.result) = Len(CoordOf(field, tin.self.coord).points)
    /\ tri' = [tri EXCEPT !.status = "returned",
                          !.final = concatenate_cubes(tri.result, tri.coords_to_correct)]
    /\ pc' = "triangular_done"
    /\ UNCHANGED <<field, orig, tin, pvars, kvars, avars>>

TriangularReturn ==
    /\ pc = "triangular_done"
    /\ pc' = "idle"
    /\ field' = NoCube
    /\ orig' = NoCube
    /\ tin' = NoTriangular
    /\ tri' = NoRun
    /\ UNCHANGED <<pvars, kvars, avars>>

NextTriangular ==
    \/ ChooseTriangular
    \/ TriangularGuessBounds
    \/ TriangularBlendPoint
    \/ TriangularConcatenate
    \/ TriangularReturn

SpecTriangular == Init /\ [][NextTriangular]_vars

(* C6 as stated: after the call has returned, the field of the caller is   *)
(* as it was before the call: data, and points and bounds (or their        *)
(* absence) of every coordinate.                                           *)
C6_InputNotMutated ==
    (pc = "triangular_done" /\ tri.status = "returned") => field = orig

\* the part of C7 about one result
PointResult(i) ==
    LET d == coord_dims(orig, tin.self.coord)[1]
        points == CoordOf(orig, tin.self.coord).points
        weights == TriangularWeights(points, tin.self.width, points[i])
        blend == WeightedMean(field.data, d,
                     BroadcastToShape(weights, field.data.shape, <<d>>))
        cube_slice == SliceOver(field, d, i - 1)
    IN  /\ tri.result[i].data = blend
        /\ \A k \in 1..Len(field.coords) :
              InSeq(d, field.coords[k].dims) =>
                 /\ tri.result[i].coords[k].points = cube_slice.coords[k].points
                 /\ tri.result[i].coords[k].bounds = cube_slice.coords[k].bounds

(* C7 as stated, for fields without percentile coordinates whose blend     *)
(* coordinate is a dimension of K points: the call returns K results in    *)
(* the order of the points, the i-th the blend of the whole field with     *)
(* the weights generated for the i-th point, its coordinates on the blend  *)
(* dimension those of the i-th slice.                                      *)
C7_OneResultPerPoint ==
    (pc = "triangular_done" /\ tin.cfg.blend >= 1 /\ tin.cfg.perc = -1 /\ ~tin.cfg.perc2) =>
        /\ tri.status = "returned"
        /\ Len(tri.result) = tin.cfg.blend
        /\ \A i \in 1..tin.cfg.blend : PointResult(i)

(***************************************************************************)
(* Calls of aggregate on arrays whose values differ from slice to slice,   *)
(* from level to level and from point to point.                            *)
(***************************************************************************)
\* the multiples of step, in C order, modulo MaxVal + 1
VariedData(shape, step) ==
    [shape |-> shape,
     val |-> [idx \in Indices(shape) |-> (Ravel(idx, shape) * step) % (MaxVal + 1)]]

VariedSteps == {1, 3}

ChooseVariedArray ==
    /\ pc = "idle"
    /\ \E R \in 2..MaxRank :
         \E shape \in [1..R -> 1..MaxDim], axis \in (-R)..(R - 1), perc_dim \in 0..(R - 1),
            step \in VariedSteps :
            /\ NormAxis(axis, R) # perc_dim
            /\ \E arr_percent \in PercentileVectors(shape[perc_dim + 1]) :
                  ain' = [data |-> VariedData(shape, step),
                          axis |-> axis,
                          arr_percent |-> arr_percent,
                          arr_weights |-> RampWeights(shape[NormAxis(axis, R) + 1]),
                          perc_dim |-> perc_dim]
    /\ pc' = "aggregate_ready"
    /\ UNCHANGED <<aout, kvars, field, orig, pvars, tvars>>

NextPoints == ChooseVariedArray \/ CallAggregate \/ AggregateReturn

SpecPoints == Init /\ [][NextPoints]_vars

\* where the percentile axis of the input is in the output
LevelAxis == IF BlendAxis < ain.perc_dim THEN ain.perc_dim - 1 ELSE ain.perc_dim

\* the (slices x levels) values of the input at the point of the output
\* index idx, read from the input by index
SubMatrix(idx) ==
    [slice \in 1..ain.data.shape[BlendAxis + 1] |->
        [level \in 1..ain.data.shape[ain.perc_dim + 1] |->
            RInt(ain.data.val[InsertAt([idx EXCEPT ![LevelAxis + 1] = level - 1],
                                       BlendAxis, slice - 1)])]]

(* C11: every value of the output of aggregate is the value, at its level, *)
(* of blend_percentiles applied to the slices and levels of the input at   *)
(* the same indices of the other axes: no value of the output depends on   *)
(* the input at another point.                                             *)
C11_PointwiseBlend ==
    AggregateCalled =>
        /\ aout.status = "returned"
        /\ aout.shape = RemoveAt(ain.data.shape, BlendAxis)
        /\ \A idx \in Indices(aout.shape) :
              aout.val[idx] =
                  blend_percentiles(SubMatrix(idx), RSeq(ain.arr_percent),
                                    ain.arr_weights)[idx[LevelAxis + 1] + 1]

\* two points whose blends differ at the same level
C11_Witness ==
    /\ AggregateCalled
    /\ ain.data.shape = <<2, 2, 2>>
    /\ BlendAxis = 1
    /\ ain.perc_dim = 0
    /\ aout.status = "returned"
    /\ aout.val[<<1, 0>>] # aout.val[<<1, 1>>]
    /\ SubMatrix(<<1, 0>>) # SubMatrix(<<1, 1>>)

(***************************************************************************)
(* Calls of blend_percentiles on any values and weights: slices that are   *)
(* not sorted, weights that do not sum to one or are all zero.             *)
(***************************************************************************)
\* value vectors of length L in any order
AnyValueVectors(L) == [1..L -> {0, 1, MaxVal}]

AnyWeights == {<<0, 1>>, <<1, 2>>, <<2, 1>>}
\* weight vectors of length N; the kernel treats the slices alike, so the
\* vectors with the weights in the other order add nothing
AnyWeightVectors(N) ==
    {w \in [1..N -> AnyWeights] : \A k \in 1..(N - 1) : RLe(w[k], w[k + 1])}

ChooseAnySlices ==
    /\ pc = "idle"
    /\ \E N \in SliceCounts, L \in 1..MaxLevels :
         \E pv \in [1..N -> AnyValueVectors(L)], p \in PercentileVectors(L),
            w \in AnyWeightVectors(N) :
            kin' = [perc_values |-> pv, percentiles |-> p, weights |-> w]
    /\ pc' = "kernel_ready"
    /\ UNCHANGED <<kout, kprev, avars, field, orig, pvars, tvars>>

NextAnyKernel == ChooseAnySlices \/ CallBlendPercentiles \/ KernelReturn

SpecAnyKernel == Init /\ [][NextAnyKernel]_vars

\* all the input values, as rationals
Pooled == RSeq(Flatten(kin.perc_values))

(* C12: whatever the values, sorted or not, the strictly increasing        *)
(* percentile levels and the weights, the vector blend_percentiles         *)
(* returns does not decrease from one level to the next and each of its    *)
(* entries lies between the least and the greatest of the input values.    *)
C12_MonotoneWithinPooledRange ==
    pc = "kernel_done" =>
        /\ Len(kout.result) = Len(kin.percentiles)
        /\ \A k \in 1..(Len(kout.result) - 1) : RLe(kout.result[k], kout.result[k + 1])
        /\ \A k \in 1..Len(kout.result) :
              /\ RLe(RMin(Pooled), kout.result[k])
              /\ RLe(kout.result[k], RMax(Pooled))

\* slices that are not sorted, weights that sum to 5/2, a result that has
\* values strictly inside the range and is not constant
C12_Witness ==
    /\ pc = "kernel_done"
    /\ Len(kin.perc_values) = 2
    /\ Len(kin.percentiles) = 3
    /\ \A i \in 1..2 : kin.perc_values[i][2] < kin.perc_values[i][1]
    /\ kin.weights = <<Rat(1, 2), Rat(2, 1)>>
    /\ kout.result[1] # kout.result[3]
    /\ RLt(RMin(Pooled), kout.result[2])
    /\ RLt(kout.result[2], RMax(Pooled))

====
